---- MODULE Spec2Model ----
(***************************************************************************)
(* Model of oig_screener.py: monthly OIG exclusion screening.              *)
(*                                                                         *)
(* Strings are sequences of one-character strings, so that substring       *)
(* tests, strip, upper and split are computed as Python computes them.     *)
(* pandas' missing value is NaN; Python's None is None.                    *)
(***************************************************************************)
EXTENDS Integers, Sequences, FiniteSets, TLC

VARIABLES
    cols,       \* find_name_columns: the column list under inspection
    rstate,     \* find_name_columns: "idle" | "returned" | "raised"
    resolved,   \* find_name_columns: the returned tuple
    raw,        \* parse_last / parse_first: the raw EMPLOYEE string
    pstate,     \* parse_last / parse_first: "idle" | "parsed"
    parsed,     \* parse_last / parse_first: [last, first]
    pc,         \* main: position of the run
    roster_exists,  \* main: os.path.isfile(emp_file)
    reports_dir,    \* main: the reports directory exists
    fetched,    \* main: the exclusion list request was made
    exit_code,  \* main: process exit status, -1 while running
    stderr,     \* main: what was written to stderr
    emp_df,     \* main: the roster table
    oig_df,     \* main: the exclusion table
    emp_in,     \* roster table as passed to the first screen_against_oig
    oig_in,     \* exclusion table as passed to the first screen_against_oig
    oig_subset, \* screen_against_oig: the deduplicated join table
    merged,     \* result of the first screen_against_oig call
    merged2,    \* result of a second screen_against_oig call
    pages       \* make_pdf_report: the pages of the saved document

resolveVars == <<cols, rstate, resolved>>
parseVars == <<raw, pstate, parsed>>
tableVars == <<emp_df, oig_df, emp_in, oig_in, oig_subset, merged, merged2>>
mainVars == <<pc, roster_exists, reports_dir, fetched, exit_code, stderr,
              tableVars, pages>>
vars == <<resolveVars, parseVars, mainVars>>

\* ------------------------------------------------------------------ bounds
MaxCols == 4
MaxRawLen == 5
MaxRoster == 2
MaxExclusions == 2
MaxReportRows == 100

\* --------------------------------------------------------- Python strings
None == <<"None">>
NaN == <<"NaN">>
Empty == <<>>

LowerCase == <<"a","b","c","d","e","f","g","h","i","j","k","l","m",
               "n","o","p","q","r","s","t","u","v","w","x","y","z">>
UpperCase == <<"A","B","C","D","E","F","G","H","I","J","K","L","M",
               "N","O","P","Q","R","S","T","U","V","W","X","Y","Z">>

UpperChar(c) ==
    IF \E i \in 1..Len(LowerCase) : LowerCase[i] = c
    THEN UpperCase[CHOOSE i \in 1..Len(LowerCase) : LowerCase[i] = c]
    ELSE c

\* str.upper()
upper(s) == [i \in 1..Len(s) |-> UpperChar(s[i])]

\* str.isspace() for one character
IsSpace(c) == c \in {" ", "\t"}

SetMin(S) == CHOOSE x \in S : \A y \in S : x <= y
SetMax(S) == CHOOSE x \in S : \A y \in S : x >= y

\* str.strip()
strip(s) ==
    LET keep == {i \in 1..Len(s) : ~IsSpace(s[i])}
    IN  IF keep = {} THEN Empty ELSE SubSeq(s, SetMin(keep), SetMax(keep))

\* w in c  (substring test)
Contains(c, w) ==
    \E i \in 0..(Len(c) - Len(w)) : SubSeq(c, i + 1, i + Len(w)) = w

\* str.split(",", 1)
split_comma_1(s) ==
    LET commas == {i \in 1..Len(s) : s[i] = ","}
    IN  IF commas = {} THEN <<s>>
        ELSE LET k == SetMin(commas)
             IN  <<SubSeq(s, 1, k - 1), SubSeq(s, k + 1, Len(s))>>

\* str.split() : whitespace-delimited tokens, empty tokens dropped
RECURSIVE split_ws_from(_, _, _, _)
split_ws_from(s, i, cur, acc) ==
    IF i > Len(s)
    THEN IF cur = Empty THEN acc ELSE Append(acc, cur)
    ELSE IF IsSpace(s[i])
         THEN split_ws_from(s, i + 1, Empty,
                            IF cur = Empty THEN acc ELSE Append(acc, cur))
         ELSE split_ws_from(s, i + 1, Append(cur, s[i]), acc)

split_ws(s) == split_ws_from(s, 1, Empty, <<>>)

\* ------------------------------------------------- parse_last/parse_first
parse_last(name_str) ==
    LET parts == split_comma_1(name_str)
    IN  IF Len(parts) > 0 THEN upper(strip(parts[1])) ELSE Empty

\* takes the last whitespace-delimited token instead of the first
parse_first_last_token(name_str) ==
    LET parts == split_comma_1(name_str)
    IN  IF Len(parts) < 2 THEN Empty
        ELSE LET first_part == split_ws(strip(parts[2]))
             IN  IF Len(first_part) > 0
                 THEN upper(strip(first_part[Len(first_part)]))
                 ELSE Empty

parse_first(name_str) ==
    LET parts == split_comma_1(name_str)
    IN  IF Len(parts) < 2 THEN Empty
        ELSE LET first_part == split_ws(strip(parts[2]))
             IN  IF Len(first_part) > 0 THEN upper(strip(first_part[1]))
                 ELSE Empty

\* ------------------------------------------------------------ column names
W_FIRST == <<"F","I","R","S","T">>
W_LAST == <<"L","A","S","T">>
W_DATE == <<"D","A","T","E">>
W_START == <<"S","T","A","R","T">>
W_EFFECT == <<"E","F","F","E","C","T">>
W_END == <<"E","N","D">>
W_REINSTATEMENT == <<"R","E","I","N","S","T","A","T","E","M","E","N","T">>

C_LASTNAME == <<"L","A","S","T","N","A","M","E">>
C_FIRSTNAME == <<"F","I","R","S","T","N","A","M","E">>
C_NPI == <<"N","P","I">>
C_EXCLDATE == <<"E","X","C","L","D","A","T","E">>
C_REINDATE == <<"R","E","I","N","D","A","T","E">>
C_EXCLUSION_START_DATE ==
    <<"E","X","C","L","U","S","I","O","N"," ","S","T","A","R","T"," ",
      "D","A","T","E">>
C_REINSTATEMENT_DATE ==
    <<"R","E","I","N","S","T","A","T","E","M","E","N","T"," ",
      "D","A","T","E">>
C_END_DATE == <<"E","N","D"," ","D","A","T","E">>
C_EFFECTIVE == <<"E","F","F","E","C","T","I","V","E">>

ColumnPool ==
    {C_LASTNAME, C_FIRSTNAME, C_NPI, C_EXCLDATE, C_REINDATE,
     C_EXCLUSION_START_DATE, C_REINSTATEMENT_DATE, C_END_DATE, C_EFFECTIVE}

\* ordered lists of distinct column names
ColumnLists(n) ==
    UNION {{cs \in [1..k -> ColumnPool] :
               \A i, j \in 1..k : i # j => cs[i] # cs[j]} : k \in 0..n}

\* ------------------------------------------------------ find_name_columns
HasAny(c, ws) == \E w \in ws : Contains(c, w)

IsFirstCol(c) == Contains(c, W_FIRST)
IsLastCol(c) == Contains(c, W_LAST)
IsDateCol(c) == Contains(c, W_DATE)
IsStartCol(c) == HasAny(c, {W_START, W_EFFECT})
IsEndCol(c) == HasAny(c, {W_END, W_REINSTATEMENT})

\* end-date fallback takes the first DATE column instead of the second
find_name_columns_end0(cs) ==
    LET first_cols == SelectSeq(cs, IsFirstCol)
        last_cols == SelectSeq(cs, IsLastCol)
        date_cols == SelectSeq(cs, IsDateCol)
        start_kw == SelectSeq(date_cols, IsStartCol)
        end_kw == SelectSeq(date_cols, IsEndCol)
        start0 == IF Len(start_kw) > 0 THEN start_kw[1] ELSE None
        end0 == IF Len(end_kw) > 0 THEN end_kw[1] ELSE None
        start1 == IF start0 \in {None, Empty} /\ Len(date_cols) > 0
                  THEN date_cols[1] ELSE start0
        end1 == IF end0 \in {None, Empty} /\ Len(date_cols) > 1
                THEN date_cols[1] ELSE end0
    IN  IF Len(first_cols) = 0 \/ Len(last_cols) = 0
        THEN [raised |-> TRUE, first |-> None, last |-> None,
              start |-> None, end |-> None]
        ELSE [raised |-> FALSE, first |-> first_cols[1],
              last |-> last_cols[1], start |-> start1, end |-> end1]

\* START/EFFECT is searched in every column, not only the DATE columns
find_name_columns_anycol(cs) ==
    LET first_cols == SelectSeq(cs, IsFirstCol)
        last_cols == SelectSeq(cs, IsLastCol)
        date_cols == SelectSeq(cs, IsDateCol)
        start_kw == SelectSeq(cs, IsStartCol)
        end_kw == SelectSeq(date_cols, IsEndCol)
        start0 == IF Len(start_kw) > 0 THEN start_kw[1] ELSE None
        end0 == IF Len(end_kw) > 0 THEN end_kw[1] ELSE None
        start1 == IF start0 \in {None, Empty} /\ Len(date_cols) > 0
                  THEN date_cols[1] ELSE start0
        end1 == IF end0 \in {None, Empty} /\ Len(date_cols) > 1
                THEN date_cols[2] ELSE end0
    IN  IF Len(first_cols) = 0 \/ Len(last_cols) = 0
        THEN [raised |-> TRUE, first |-> None, last |-> None,
              start |-> None, end |-> None]
        ELSE [raised |-> FALSE, first |-> first_cols[1],
              last |-> last_cols[1], start |-> start1, end |-> end1]

find_name_columns(cs) ==
    LET first_cols == SelectSeq(cs, IsFirstCol)
        last_cols == SelectSeq(cs, IsLastCol)
        date_cols == SelectSeq(cs, IsDateCol)
        start_kw == SelectSeq(date_cols, IsStartCol)
        end_kw == SelectSeq(date_cols, IsEndCol)
        start0 == IF Len(start_kw) > 0 THEN start_kw[1] ELSE None
        end0 == IF Len(end_kw) > 0 THEN end_kw[1] ELSE None
        start1 == IF start0 \in {None, Empty} /\ Len(date_cols) > 0
                  THEN date_cols[1] ELSE start0
        end1 == IF end0 \in {None, Empty} /\ Len(date_cols) > 1
                THEN date_cols[2] ELSE end0
    IN  IF Len(first_cols) = 0 \/ Len(last_cols) = 0
        THEN [raised |-> TRUE, first |-> None, last |-> None,
              start |-> None, end |-> None]
        ELSE [raised |-> FALSE, first |-> first_cols[1],
              last |-> last_cols[1], start |-> start1, end |-> end1]

\* ------------------------------------------------------------- constants
C_ID == <<"I","D">>
C_EMPLOYEE == <<"E","M","P","L","O","Y","E","E">>
C_LAST_NAME == <<"L","A","S","T","_","N","A","M","E">>
C_FIRST_NAME == <<"F","I","R","S","T","_","N","A","M","E">>
C_EMP_LAST_UP == <<"E","M","P","_","L","A","S","T","_","U","P">>
C_EMP_FIRST_UP == <<"E","M","P","_","F","I","R","S","T","_","U","P">>
C_OIG_FIRST_UP == <<"O","I","G","_","F","I","R","S","T","_","U","P">>
C_OIG_LAST_UP == <<"O","I","G","_","L","A","S","T","_","U","P">>
C_OIG_START_DATE ==
    <<"O","I","G","_","S","T","A","R","T","_","D","A","T","E">>
C_OIG_END_DATE == <<"O","I","G","_","E","N","D","_","D","A","T","E">>

\* raw header cells of the fetched CSV, before strip().upper()
H_lastname == <<" ","l","a","s","t","n","a","m","e">>
H_Firstname == <<"F","i","r","s","t","n","a","m","e"," ">>

\* cell values
S_SMITH == <<"S","M","I","T","H">>
S_JOHN == <<"J","O","H","N">>
S_DOE == <<"D","O","E">>
S_JANE == <<"J","A","N","E">>
S_doe == <<" ","d","o","e">>
S_Jane == <<"J","a","n","e"," ">>
S_DATE1 == <<"0","1","/","0","1","/","2","0","2","4">>
S_DATE2 == <<"0","2","/","0","2","/","2","0","2","0">>
S_NPI == <<"1","2","3","4">>
Raw_DOE_JANE == <<"D","O","E",","," ","J","A","N","E">>
Raw_ROE_AL == <<"R","O","E",","," ","A","L">>
S_nan == <<"n","a","n">>

\* lines_per_page
lines_per_page == 45

\* ------------------------------------------------------------ data frames
\* A DataFrame is [columns: sequence of names, rows: sequence of functions
\* from the column names to cell values].
Range(f) == {f[i] : i \in DOMAIN f}

NoTable == [columns |-> <<>>, rows |-> <<>>]

\* df[c]
GetCol(df, c) == [i \in 1..Len(df.rows) |-> df.rows[i][c]]

\* df[c] = vals  (in place: a new column is appended, an old one replaced)
SetCol(df, c, vals) ==
    [columns |-> IF c \in Range(df.columns) THEN df.columns
                 ELSE Append(df.columns, c),
     rows |-> [i \in 1..Len(df.rows) |->
                 [k \in (DOMAIN df.rows[i]) \cup {c} |->
                     IF k = c THEN vals[i] ELSE df.rows[i][k]]]]

\* df[subset]
Project(df, subset) ==
    [columns |-> subset,
     rows |-> [i \in 1..Len(df.rows) |->
                 [k \in Range(subset) |-> df.rows[i][k]]]]

\* Series.fillna("")
fillna_empty(vals) ==
    [i \in 1..Len(vals) |-> IF vals[i] = NaN THEN Empty ELSE vals[i]]

\* Series.str.upper() / Series.str.strip() : NaN stays NaN
str_upper(vals) ==
    [i \in 1..Len(vals) |-> IF vals[i] = NaN THEN NaN ELSE upper(vals[i])]
str_strip(vals) ==
    [i \in 1..Len(vals) |-> IF vals[i] = NaN THEN NaN ELSE strip(vals[i])]

KeyOf(row, keys) == [k \in 1..Len(keys) |-> row[keys[k]]]

RECURSIVE TakeRows(_, _, _)
TakeRows(rows, keep, i) ==
    IF i > Len(rows) THEN <<>>
    ELSE (IF i \in keep THEN <<rows[i]>> ELSE <<>>)
         \o TakeRows(rows, keep, i + 1)

\* keeps the last row of every key instead of the first
drop_duplicates_keep_last(df, keys) ==
    LET keep == {i \in 1..Len(df.rows) :
                    \A j \in (i + 1)..Len(df.rows) :
                        KeyOf(df.rows[j], keys) # KeyOf(df.rows[i], keys)}
    IN  [columns |-> df.columns, rows |-> TakeRows(df.rows, keep, 1)]

\* df.drop_duplicates(subset=keys)  (keep="first")
drop_duplicates(df, keys) ==
    LET keep == {i \in 1..Len(df.rows) :
                    \A j \in 1..(i - 1) :
                        KeyOf(df.rows[j], keys) # KeyOf(df.rows[i], keys)}
    IN  [columns |-> df.columns, rows |-> TakeRows(df.rows, keep, 1)]

JoinRow(l, r) == [k \in (DOMAIN l) \cup (DOMAIN r) |->
                     IF k \in DOMAIN l THEN l[k] ELSE r[k]]

RECURSIVE RightMatches(_, _, _, _, _)
RightMatches(lrow, right, left_on, right_on, j) ==
    IF j > Len(right.rows) THEN <<>>
    ELSE (IF KeyOf(right.rows[j], right_on) = KeyOf(lrow, left_on)
          THEN <<JoinRow(lrow, right.rows[j])>> ELSE <<>>)
         \o RightMatches(lrow, right, left_on, right_on, j + 1)

RECURSIVE MergeFrom(_, _, _, _, _)
MergeFrom(left, right, left_on, right_on, i) ==
    IF i > Len(left.rows) THEN <<>>
    ELSE RightMatches(left.rows[i], right, left_on, right_on, 1)
         \o MergeFrom(left, right, left_on, right_on, i + 1)

RECURSIVE LeftMatches(_, _, _, _, _)
LeftMatches(rrow, left, left_on, right_on, i) ==
    IF i > Len(left.rows) THEN <<>>
    ELSE (IF KeyOf(left.rows[i], left_on) = KeyOf(rrow, right_on)
          THEN <<JoinRow(left.rows[i], rrow)>> ELSE <<>>)
         \o LeftMatches(rrow, left, left_on, right_on, i + 1)

RECURSIVE MergeFromRight(_, _, _, _, _)
MergeFromRight(left, right, left_on, right_on, j) ==
    IF j > Len(right.rows) THEN <<>>
    ELSE LeftMatches(right.rows[j], left, left_on, right_on, 1)
         \o MergeFromRight(left, right, left_on, right_on, j + 1)

\* emits the matches in the order of the right table
merge_inner_right_order(left, right, left_on, right_on) ==
    [columns |-> left.columns \o right.columns,
     rows |-> MergeFromRight(left, right, left_on, right_on, 1)]

\* pd.merge(left, right, left_on=..., right_on=..., how="inner"):
\* the order of the left keys is preserved
merge_inner(left, right, left_on, right_on) ==
    [columns |-> left.columns \o right.columns,
     rows |-> MergeFrom(left, right, left_on, right_on, 1)]

\* ------------------------------------------------------- download_oig_csv
\* csv = [header: sequence of raw column names, rows: sequence of sequences
\* of cells]; read_csv(dtype=str) reads an empty cell as NaN.
download_oig_csv(csv) ==
    LET columns == [i \in 1..Len(csv.header) |-> upper(strip(csv.header[i]))]
    IN  [columns |-> columns,
         rows |-> [r \in 1..Len(csv.rows) |->
                     [c \in Range(columns) |->
                        LET i == CHOOSE i \in 1..Len(columns) : columns[i] = c
                        IN  IF csv.rows[r][i] = Empty THEN NaN
                            ELSE csv.rows[r][i]]]]

\* ----------------------------------------------------- load_employee_list
\* sheet = sequence of [ID, EMPLOYEE] rows of a file whose columns already
\* carry the names ID and EMPLOYEE.
load_employee_list(sheet) ==
    LET df == [columns |-> <<C_ID, C_EMPLOYEE>>,
               rows |-> [i \in 1..Len(sheet) |->
                           [c \in {C_ID, C_EMPLOYEE} |->
                              IF c = C_ID THEN sheet[i].ID
                              ELSE sheet[i].EMPLOYEE]]]
        employee == GetCol(df, C_EMPLOYEE)
        df1 == SetCol(df, C_LAST_NAME,
                      [i \in 1..Len(employee) |-> parse_last(employee[i])])
    IN  SetCol(df1, C_FIRST_NAME,
               [i \in 1..Len(employee) |-> parse_first(employee[i])])

\* ----------------------------------------------------- screen_against_oig
\* if x:  for a column name or None
Truthy(x) == x # None /\ x # Empty

JoinKeysEmp == <<C_EMP_LAST_UP, C_EMP_FIRST_UP>>
JoinKeysOig == <<C_OIG_LAST_UP, C_OIG_FIRST_UP>>

\* The result carries the two argument tables as the call leaves them.
screen_against_oig(emp, oig) ==
    LET r == find_name_columns(oig.columns)
        o1 == SetCol(oig, C_OIG_FIRST_UP,
                     str_strip(str_upper(fillna_empty(GetCol(oig, r.first)))))
        o2 == SetCol(o1, C_OIG_LAST_UP,
                     str_strip(str_upper(fillna_empty(GetCol(o1, r.last)))))
        o3 == IF Truthy(r.start)
              THEN SetCol(o2, C_OIG_START_DATE, GetCol(o2, r.start)) ELSE o2
        o4 == IF Truthy(r.end)
              THEN SetCol(o3, C_OIG_END_DATE, GetCol(o3, r.end)) ELSE o3
        subset == JoinKeysOig
                  \o (IF Truthy(r.start) THEN <<C_OIG_START_DATE>> ELSE <<>>)
                  \o (IF Truthy(r.end) THEN <<C_OIG_END_DATE>> ELSE <<>>)
        sub == drop_duplicates(Project(o4, subset), JoinKeysOig)
        e1 == SetCol(emp, C_EMP_LAST_UP,
                     str_strip(str_upper(GetCol(emp, C_LAST_NAME))))
        e2 == SetCol(e1, C_EMP_FIRST_UP,
                     str_strip(str_upper(GetCol(e1, C_FIRST_NAME))))
    IN  IF r.raised
        THEN [raised |-> TRUE, emp_df |-> emp, oig_df |-> oig,
              oig_subset |-> NoTable, merged |-> NoTable]
        ELSE [raised |-> FALSE, emp_df |-> e2, oig_df |-> o4,
              oig_subset |-> sub,
              merged |-> merge_inner(e2, sub, JoinKeysEmp, JoinKeysOig)]

\* -------------------------------------------------------- make_pdf_report
\* canvas: [pages: finished pages, code: what was drawn on the open page]
drawText(c, t) == [c EXCEPT !.code = Append(@, t)]
showPage(c) == [pages |-> Append(c.pages, c.code), code |-> <<>>]
\* Canvas.save() finishes the open page when something was drawn on it
save(c) == IF Len(c.code) > 0 THEN showPage(c) ELSE c

Spaces(n) == [i \in 1..n |-> " "]

\* format(v, "<w") : left-justified, padded with spaces, never cut
ljust(v, w) ==
    LET s == IF v = NaN THEN S_nan ELSE v
    IN  IF Len(s) >= w THEN s ELSE s \o Spaces(w - Len(s))

\* row.get(c, "") or ""
get_or_empty(row, c) ==
    LET v == IF c \in DOMAIN row THEN row[c] ELSE Empty
    IN  IF v # Empty THEN v ELSE Empty

row_line(row) ==
    LET emp_id == row[C_ID]
        emp_name == row[C_EMPLOYEE]
        start == get_or_empty(row, C_OIG_START_DATE)
        end == get_or_empty(row, C_OIG_END_DATE)
    IN  [kind |-> "row",
         text |-> ljust(emp_id, 8) \o <<" ">> \o ljust(emp_name, 30)
                  \o <<" ">> \o ljust(start, 12) \o <<" ">> \o ljust(end, 12)]

TitleText ==
    <<[kind |-> "title", text |-> <<"H&S Pharmacies LLC">>],
      [kind |-> "title", text |-> <<"OIG Exclusion Screening Report">>],
      [kind |-> "title", text |-> <<"Date: today">>]>>

NoticeLine ==
    [kind |-> "notice",
     text |-> <<"No exclusions found for any active employee this month.">>]

HeaderLine ==
    [kind |-> "header",
     text |-> ljust(C_ID, 8) \o <<" ">>
              \o ljust(<<"E","M","P","L","O","Y","E","E"," ",
                         "N","A","M","E">>, 30) \o <<" ">>
              \o ljust(<<"E","X","C","L"," ","S","T","A","R","T">>, 12)
              \o <<" ">>
              \o ljust(<<"E","X","C","L"," ","E","N","D">>, 12)]

\* one pass of the body of "for _, row in merged_df.iterrows()"
\* st = [c: canvas, t2: open text object, count: rows on the open page]
loop_body(st, row) ==
    LET t3 == Append(st.t2, row_line(row))
    IN  IF st.count + 1 >= lines_per_page
        THEN [c |-> showPage(drawText(st.c, t3)), t2 |-> <<>>, count |-> 0]
        ELSE [c |-> st.c, t2 |-> t3, count |-> st.count + 1]

\* the for loop over rows lo..hi, in order, starting from loop state st
RECURSIVE for_rows(_, _, _, _)
for_rows(rows, lo, hi, st) ==
    IF lo > hi THEN st
    ELSE IF lo = hi THEN loop_body(st, rows[lo])
    ELSE LET mid == (lo + hi) \div 2
         IN  \* rows lo..mid first, then rows mid+1..hi from the state reached
             CHOOSE r \in {for_rows(rows, mid + 1, hi, left) :
                              left \in {for_rows(rows, lo, mid, st)}} : TRUE

make_pdf_report(merged_df) ==
    LET c == drawText([pages |-> <<>>, code |-> <<>>], TitleText)
        st == for_rows(merged_df.rows, 1, Len(merged_df.rows),
                       [c |-> c, t2 |-> <<HeaderLine>>, count |-> 0])
    IN  IF Len(merged_df.rows) = 0
        THEN save(drawText(c, <<NoticeLine>>)).pages
        ELSE save(drawText(st.c, st.t2)).pages

\* ------------------------------------------------------------------ inputs
Layouts ==
    {<<[name |-> C_LASTNAME, role |-> "last"],
       [name |-> C_FIRSTNAME, role |-> "first"]>>,
     <<[name |-> C_LASTNAME, role |-> "last"],
       [name |-> C_FIRSTNAME, role |-> "first"],
       [name |-> C_EXCLDATE, role |-> "d1"]>>,
     <<[name |-> H_lastname, role |-> "last"],
       [name |-> H_Firstname, role |-> "first"],
       [name |-> C_NPI, role |-> "npi"],
       [name |-> C_EXCLDATE, role |-> "d1"],
       [name |-> C_REINDATE, role |-> "d2"]>>,
     <<[name |-> C_FIRSTNAME, role |-> "first"],
       [name |-> C_LASTNAME, role |-> "last"],
       [name |-> C_EXCLUSION_START_DATE, role |-> "d1"],
       [name |-> C_REINSTATEMENT_DATE, role |-> "d2"]>>,
     <<[name |-> C_NPI, role |-> "npi"],
       [name |-> C_EXCLDATE, role |-> "d1"]>>}

EntryPool ==
    {[last |-> S_DOE, first |-> S_JANE, d1 |-> S_DATE1, d2 |-> Empty],
     [last |-> S_doe, first |-> S_Jane, d1 |-> S_DATE2, d2 |-> S_DATE1],
     [last |-> S_SMITH, first |-> Empty, d1 |-> S_DATE1, d2 |-> Empty],
     [last |-> S_SMITH, first |-> Empty, d1 |-> S_DATE2, d2 |-> S_DATE1]}

Cell(e, role) ==
    CASE role = "last" -> e.last
      [] role = "first" -> e.first
      [] role = "d1" -> e.d1
      [] role = "d2" -> e.d2
      [] OTHER -> S_NPI

ExclusionFiles ==
    {[header |-> [k \in 1..Len(lay) |-> lay[k].name],
      rows |-> [i \in 1..Len(es) |->
                  [k \in 1..Len(lay) |-> Cell(es[i], lay[k].role)]]] :
        lay \in Layouts,
        es \in UNION {[1..m -> EntryPool] : m \in 0..MaxExclusions}}

RECURSIVE Digits(_)
Digits(n) ==
    LET d == <<"0","1","2","3","4","5","6","7","8","9">>
    IN  IF n < 10 THEN <<d[n + 1]>>
        ELSE Append(Digits(n \div 10), d[(n % 10) + 1])

RosterSheets ==
    {[i \in 1..Len(ns) |-> [ID |-> Digits(i), EMPLOYEE |-> ns[i]]] :
        ns \in UNION {[1..m -> {Raw_DOE_JANE, S_SMITH, Raw_ROE_AL}] :
                         m \in 0..MaxRoster}}

\* -------------------------------------------------------------------- main
MissingFileMsg == "ERROR: Cannot find file. Exiting."
TracebackMsg == "Traceback"

ResolveIdle ==
    /\ cols = <<>>
    /\ rstate = "idle"
    /\ resolved = [raised |-> FALSE, first |-> None, last |-> None,
                   start |-> None, end |-> None]

ParseIdle ==
    /\ raw = Empty
    /\ pstate = "idle"
    /\ parsed = [last |-> Empty, first |-> Empty]

TablesIdle ==
    /\ emp_df = NoTable
    /\ oig_df = NoTable
    /\ emp_in = NoTable
    /\ oig_in = NoTable
    /\ oig_subset = NoTable
    /\ merged = NoTable
    /\ merged2 = NoTable

MainIdle ==
    /\ pc = "start"
    /\ roster_exists = FALSE
    /\ reports_dir = FALSE
    /\ fetched = FALSE
    /\ exit_code = -1
    /\ stderr = <<>>
    /\ TablesIdle
    /\ pages = <<>>

Init == ResolveIdle /\ ParseIdle /\ MainIdle

\* args = parse_args(); emp_file = get_employee_excel_path(...)
GetPath ==
    /\ pc = "start"
    /\ roster_exists' \in BOOLEAN
    /\ pc' = "makedirs"
    /\ UNCHANGED <<resolveVars, parseVars, reports_dir, fetched, exit_code,
                   stderr, tableVars, pages>>

\* os.makedirs(REPORTS_DIR, exist_ok=True)
MakeDirs ==
    /\ pc = "makedirs"
    /\ reports_dir' = TRUE
    /\ pc' = "download"
    /\ UNCHANGED <<resolveVars, parseVars, roster_exists, fetched, exit_code,
                   stderr, tableVars, pages>>

\* oig_df = download_oig_csv(OIG_CSV_URL)
Download ==
    /\ pc = "download"
    /\ fetched' = TRUE
    /\ \E csv \in ExclusionFiles : oig_df' = download_oig_csv(csv)
    /\ pc' = "load"
    /\ UNCHANGED <<resolveVars, parseVars, roster_exists, reports_dir,
                   exit_code, stderr, emp_df, emp_in, oig_in, oig_subset,
                   merged, merged2, pages>>

\* requests.get raises, or resp.raise_for_status() does
DownloadFails ==
    /\ pc = "download"
    /\ fetched' = TRUE
    /\ pc' = "crashed"
    /\ exit_code' = 1
    /\ stderr' = Append(stderr, TracebackMsg)
    /\ UNCHANGED <<resolveVars, parseVars, roster_exists, reports_dir,
                   tableVars, pages>>

\* emp_df = load_employee_list(emp_file), the file is missing
LoadMissing ==
    /\ pc = "load"
    /\ ~roster_exists
    /\ stderr' = Append(stderr, MissingFileMsg)
    /\ exit_code' = 1
    /\ pc' = "exited"
    /\ UNCHANGED <<resolveVars, parseVars, roster_exists, reports_dir,
                   fetched, tableVars, pages>>

\* emp_df = load_employee_list(emp_file)
Load ==
    /\ pc = "load"
    /\ roster_exists
    /\ \E sheet \in RosterSheets : emp_df' = load_employee_list(sheet)
    /\ pc' = "screen"
    /\ UNCHANGED <<resolveVars, parseVars, roster_exists, reports_dir,
                   fetched, exit_code, stderr, oig_df, emp_in, oig_in,
                   oig_subset, merged, merged2, pages>>

\* merged = screen_against_oig(emp_df, oig_df)
Screen ==
    /\ pc = "screen"
    /\ LET res == screen_against_oig(emp_df, oig_df)
       IN  /\ emp_in' = emp_df
           /\ oig_in' = oig_df
           /\ emp_df' = res.emp_df
           /\ oig_df' = res.oig_df
           /\ oig_subset' = res.oig_subset
           /\ merged' = res.merged
           /\ IF res.raised
              THEN /\ pc' = "crashed"
                   /\ exit_code' = 1
                   /\ stderr' = Append(stderr, TracebackMsg)
              ELSE /\ pc' = "screened"
                   /\ UNCHANGED <<exit_code, stderr>>
    /\ UNCHANGED <<resolveVars, parseVars, roster_exists, reports_dir,
                   fetched, merged2, pages>>

\* a second screen_against_oig(emp_df, oig_df) on the same two tables
Rescreen ==
    /\ pc = "screened"
    /\ LET res == screen_against_oig(emp_df, oig_df)
       IN  /\ emp_df' = res.emp_df
           /\ oig_df' = res.oig_df
           /\ oig_subset' = res.oig_subset
           /\ merged2' = res.merged
    /\ pc' = "rescreened"
    /\ UNCHANGED <<resolveVars, parseVars, roster_exists, reports_dir,
                   fetched, exit_code, stderr, emp_in, oig_in, merged, pages>>

\* make_pdf_report(merged, output_pdf)
MakePdfReport ==
    /\ pc = "screened"
    /\ pages' = make_pdf_report(merged)
    /\ exit_code' = 0
    /\ pc' = "done"
    /\ UNCHANGED <<resolveVars, parseVars, roster_exists, reports_dir,
                   fetched, stderr, tableVars>>

Next ==
    \/ GetPath
    \/ MakeDirs
    \/ Download
    \/ DownloadFails
    \/ LoadMissing
    \/ Load
    \/ Screen
    \/ Rescreen
    \/ MakePdfReport

Spec == Init /\ [][Next]_vars

\* ------------------------------------------------------- report harness
\* a matched table of n rows, as screen_against_oig returns it
MatchedTable(n) ==
    [columns |-> <<C_ID, C_EMPLOYEE, C_OIG_START_DATE, C_OIG_END_DATE>>,
     rows |-> [i \in 1..n |->
                 [c \in {C_ID, C_EMPLOYEE, C_OIG_START_DATE, C_OIG_END_DATE}
                    |-> CASE c = C_ID -> Digits(i)
                          [] c = C_EMPLOYEE -> Raw_DOE_JANE
                          [] c = C_OIG_START_DATE -> S_DATE1
                          [] OTHER -> S_DATE2]]]

InitRender ==
    /\ ResolveIdle
    /\ ParseIdle
    /\ pc = "screened"
    /\ roster_exists = TRUE
    /\ reports_dir = TRUE
    /\ fetched = TRUE
    /\ exit_code = -1
    /\ stderr = <<>>
    /\ emp_df = NoTable
    /\ oig_df = NoTable
    /\ emp_in = NoTable
    /\ oig_in = NoTable
    /\ oig_subset = NoTable
    /\ merged2 = NoTable
    /\ \E n \in 1..MaxReportRows : merged = MatchedTable(n)
    /\ pages = <<>>

NextRender == MakePdfReport

SpecRender == InitRender /\ [][NextRender]_vars

\* ---------------------------------------------- column resolution harness
InitResolve ==
    /\ cols \in ColumnLists(MaxCols)
    /\ rstate = "idle"
    /\ resolved = [raised |-> FALSE, first |-> None, last |-> None,
                   start |-> None, end |-> None]
    /\ ParseIdle
    /\ MainIdle

Resolve ==
    /\ rstate = "idle"
    /\ resolved' = find_name_columns(cols)
    /\ rstate' = IF resolved'.raised THEN "raised" ELSE "returned"
    /\ UNCHANGED <<cols, parseVars, mainVars>>

NextResolve == Resolve

SpecResolve == InitResolve /\ [][NextResolve]_vars

\* ------------------------------------------------- name parsing harness
RawAlphabet == {"a", "B", " ", ","}

RawStrings(n) == UNION {[1..k -> RawAlphabet] : k \in 0..n}

Raw_SMITH_JOHN_Q ==
    <<"S","M","I","T","H",","," ","J","O","H","N"," ","Q">>
Raw_smith_john == <<"s","m","i","t","h",","," "," ","j","o","h","n">>

RawExamples == {Raw_SMITH_JOHN_Q, S_SMITH, Raw_smith_john}

InitParse ==
    /\ raw \in RawStrings(MaxRawLen) \cup RawExamples
    /\ pstate = "idle"
    /\ parsed = [last |-> Empty, first |-> Empty]
    /\ ResolveIdle
    /\ MainIdle

Parse ==
    /\ pstate = "idle"
    /\ parsed' = [last |-> parse_last(raw), first |-> parse_first(raw)]
    /\ pstate' = "parsed"
    /\ UNCHANGED <<resolveVars, raw, mainVars>>

NextParse == Parse

SpecParse == InitParse /\ [][NextParse]_vars

\* ------------------------------------------------------------ properties
IdxOf(cs, ws) == {i \in 1..Len(cs) : HasAny(cs[i], ws)}

ExampleColumns ==
    <<C_LASTNAME, C_FIRSTNAME, C_EXCLUSION_START_DATE, C_REINSTATEMENT_DATE>>

ExampleResolution ==
    [raised |-> FALSE, first |-> C_FIRSTNAME, last |-> C_LASTNAME,
     start |-> C_EXCLUSION_START_DATE, end |-> C_REINSTATEMENT_DATE]

\* C7: find_name_columns raises when no column contains FIRST or none
\* contains LAST; otherwise it returns the first FIRST column, the first
\* LAST column, as start the first DATE column that also contains START or
\* EFFECT (else the first DATE column, else none) and as end the first DATE
\* column that also contains END or REINSTATEMENT (else the second DATE
\* column, else none).  The four-column example resolves to itself in role
\* order.
C7_ColumnResolution ==
    rstate # "idle" =>
        LET fi == IdxOf(cols, {W_FIRST})
            li == IdxOf(cols, {W_LAST})
            di == IdxOf(cols, {W_DATE})
            si == di \cap IdxOf(cols, {W_START, W_EFFECT})
            ei == di \cap IdxOf(cols, {W_END, W_REINSTATEMENT})
        IN  /\ (fi = {} \/ li = {}) => rstate = "raised"
            /\ (fi # {} /\ li # {}) =>
                  /\ rstate = "returned"
                  /\ resolved.first = cols[SetMin(fi)]
                  /\ resolved.last = cols[SetMin(li)]
                  /\ resolved.start =
                        IF si # {} THEN cols[SetMin(si)]
                        ELSE IF di # {} THEN cols[SetMin(di)] ELSE None
                  /\ resolved.end =
                        IF ei # {} THEN cols[SetMin(ei)]
                        ELSE IF Cardinality(di) > 1
                             THEN cols[SetMin(di \ {SetMin(di)})]
                             ELSE None
            /\ cols = ExampleColumns => resolved = ExampleResolution

C7_Witness ==
    /\ rstate = "returned"
    /\ cols = ExampleColumns
    /\ resolved = ExampleResolution

\* C10 as stated: whenever both a start and an end column are returned they
\* are different columns.
C10_DistinctDateColumns ==
    (rstate = "returned" /\ resolved.start # None /\ resolved.end # None)
        => resolved.start # resolved.end

\* C10 amended: a start and an end column that are the same column contain
\* one of START, EFFECT, END, REINSTATEMENT; two columns both chosen by
\* position (neither contains a keyword) are different.
C10_DistinctUnlessKeyword ==
    (rstate = "returned" /\ resolved.start # None /\ resolved.end # None
       /\ resolved.start = resolved.end)
        => (IsStartCol(resolved.start) \/ IsEndCol(resolved.start))

C10_Witness ==
    /\ rstate = "returned"
    /\ resolved.start = C_EXCLDATE
    /\ resolved.end = C_REINDATE

IsUpper(s) == upper(s) = s
IsTrimmed(s) == s = Empty \/ (~IsSpace(s[1]) /\ ~IsSpace(s[Len(s)]))

\* C9: the last name is the text before the first comma (the whole string
\* when there is none), trimmed and upper-cased; the first name is the first
\* whitespace-delimited token after the first comma, upper-cased, and empty
\* when there is no comma or only whitespace after it; both are upper-case
\* and trimmed.
C9_RosterNameParsing ==
    pstate = "parsed" =>
        LET n == Len(raw)
            commas == {i \in 1..n : raw[i] = ","}
            k == IF commas = {} THEN n + 1 ELSE SetMin(commas)
            body == {i \in (k + 1)..n : ~IsSpace(raw[i])}
            a == SetMin(body)
            b == SetMax({j \in a..n : \A i \in a..j : i \in body})
        IN  /\ parsed.last = upper(strip(SubSeq(raw, 1, k - 1)))
            /\ parsed.first =
                  IF body = {} THEN Empty ELSE upper(SubSeq(raw, a, b))
            /\ IsUpper(parsed.last) /\ IsTrimmed(parsed.last)
            /\ IsUpper(parsed.first) /\ IsTrimmed(parsed.first)
            /\ raw = Raw_SMITH_JOHN_Q =>
                  parsed = [last |-> S_SMITH, first |-> S_JOHN]
            /\ raw = S_SMITH => parsed = [last |-> S_SMITH, first |-> Empty]
            /\ raw = Raw_smith_john =>
                  parsed = [last |-> S_SMITH, first |-> S_JOHN]

C9_Witness ==
    /\ pstate = "parsed"
    /\ raw = Raw_SMITH_JOHN_Q
    /\ parsed = [last |-> S_SMITH, first |-> S_JOHN]

\* ---------------------------------------------------- matching properties
EmpKey(i) == KeyOf(emp_df.rows[i], JoinKeysEmp)
OigKey(j) == KeyOf(oig_df.rows[j], JoinKeysOig)

\* roster entries whose key is the key of some exclusion row
Matching == {i \in 1..Len(emp_df.rows) :
                \E j \in 1..Len(oig_df.rows) : EmpKey(i) = OigKey(j)}

\* C1: screen_against_oig returns exactly one record per roster entry whose
\* (EMP_LAST_UP, EMP_FIRST_UP) equals the (OIG_LAST_UP, OIG_FIRST_UP) of some
\* exclusion row, none for any other entry, in roster order; no overlap
\* gives the empty result, and the call raises only when the name columns
\* cannot be resolved.
C1_InnerJoinRosterOrder ==
    /\ pc = "screened" =>
         /\ Len(merged.rows) = Cardinality(Matching)
         /\ \A k \in 1..Len(merged.rows) :
              \E i \in Matching :
                 /\ Cardinality({m \in Matching : m <= i}) = k
                 /\ merged.rows[k][C_ID] = emp_df.rows[i][C_ID]
                 /\ merged.rows[k][C_EMPLOYEE] = emp_df.rows[i][C_EMPLOYEE]
    /\ (pc = "crashed" /\ Len(oig_in.columns) > 0) =>
         ~(/\ \E c \in Range(oig_in.columns) : Contains(c, W_FIRST)
           /\ \E c \in Range(oig_in.columns) : Contains(c, W_LAST))

\* two matches, found in roster order while the exclusion rows are in the
\* opposite order
C1_Witness ==
    /\ pc = "screened"
    /\ Len(emp_df.rows) = 2
    /\ Len(oig_df.rows) = 2
    /\ Len(merged.rows) = 2
    /\ EmpKey(1) = OigKey(2)
    /\ EmpKey(2) = OigKey(1)
    /\ EmpKey(1) # EmpKey(2)
    /\ merged.rows[1][C_ID] = <<"1">>
    /\ merged.rows[2][C_ID] = <<"2">>

FirstWithKey(key) ==
    SetMin({i \in 1..Len(oig_df.rows) : OigKey(i) = key})

\* C2: of the exclusion rows sharing a normalized key exactly one survives
\* into the join table, the first in source order, and every matched record
\* carries the start/end dates of that first row.
C2_DedupKeepsFirst ==
    pc = "screened" =>
        LET r == find_name_columns(oig_in.columns)
        IN  /\ \A j \in 1..Len(oig_df.rows) :
                 LET first == FirstWithKey(OigKey(j))
                     surv == {s \in 1..Len(oig_subset.rows) :
                                KeyOf(oig_subset.rows[s], JoinKeysOig)
                                  = OigKey(j)}
                 IN  /\ Cardinality(surv) = 1
                     /\ \A s \in surv :
                          /\ Truthy(r.start) =>
                               oig_subset.rows[s][C_OIG_START_DATE]
                                 = oig_in.rows[first][r.start]
                          /\ Truthy(r.end) =>
                               oig_subset.rows[s][C_OIG_END_DATE]
                                 = oig_in.rows[first][r.end]
            /\ \A k \in 1..Len(merged.rows) :
                 LET first == FirstWithKey(KeyOf(merged.rows[k], JoinKeysOig))
                 IN  /\ Truthy(r.start) =>
                          merged.rows[k][C_OIG_START_DATE]
                            = oig_in.rows[first][r.start]
                     /\ Truthy(r.end) =>
                          merged.rows[k][C_OIG_END_DATE]
                            = oig_in.rows[first][r.end]

\* two exclusion rows with one key and different start dates, and a match
C2_Witness ==
    /\ pc = "screened"
    /\ Len(oig_df.rows) = 2
    /\ OigKey(1) = OigKey(2)
    /\ C_OIG_START_DATE \in Range(oig_df.columns)
    /\ oig_df.rows[1][C_OIG_START_DATE] # oig_df.rows[2][C_OIG_START_DATE]
    /\ Len(merged.rows) >= 1
    /\ merged.rows[1][C_OIG_START_DATE] = oig_df.rows[1][C_OIG_START_DATE]

\* the matched roster entries with their dates, present or absent
Matches(df) ==
    [k \in 1..Len(df.rows) |->
        [id |-> df.rows[k][C_ID],
         has_start |-> C_OIG_START_DATE \in DOMAIN df.rows[k],
         start |-> get_or_empty(df.rows[k], C_OIG_START_DATE),
         has_end |-> C_OIG_END_DATE \in DOMAIN df.rows[k],
         end |-> get_or_empty(df.rows[k], C_OIG_END_DATE)]]

C8_ArgumentsUnchanged ==
    pc = "screened" => (emp_df = emp_in /\ oig_df = oig_in)

\* C4: a run with a missing roster file ends with the error message and
\* exit code 1 before the reports directory is created and before the
\* exclusion list is fetched.
C4_MissingRosterExitsFirst ==
    (exit_code # -1 /\ ~roster_exists) =>
        /\ exit_code = 1
        /\ stderr = <<MissingFileMsg>>
        /\ ~reports_dir
        /\ ~fetched

\* ------------------------------------------------------ report properties
RECURSIVE Flatten(_)
Flatten(ss) == IF ss = <<>> THEN <<>> ELSE Head(ss) \o Flatten(Tail(ss))

PageLines(page) == Flatten(page)
LinesOfKind(lines, kind) == SelectSeq(lines, LAMBDA l : l.kind = kind)
DataRows(page) == Len(LinesOfKind(PageLines(page), "row"))
ReportRowLines ==
    LinesOfKind(Flatten([p \in 1..Len(pages) |-> PageLines(pages[p])]), "row")

DateMissing(row, c) == c \notin DOMAIN row \/ row[c] \in {NaN, Empty}

\* C5: a matched row whose start or end date is missing, because the column
\* was never resolved or because the exclusion row has no value in it, is
\* rendered with the empty string (twelve spaces) in that field.
C5_MissingDateRendersEmpty ==
    (pc = "done" /\ Len(merged.rows) > 0) =>
        /\ Len(ReportRowLines) = Len(merged.rows)
        /\ \A k \in 1..Len(merged.rows) :
             /\ DateMissing(merged.rows[k], C_OIG_START_DATE) =>
                  SubSeq(ReportRowLines[k].text, 41, 52) = Spaces(12)
             /\ DateMissing(merged.rows[k], C_OIG_END_DATE) =>
                  SubSeq(ReportRowLines[k].text, 54, 65) = Spaces(12)

\* C6: for n >= 1 matched rows the header is emitted once, on the first
\* page, the rows appear in input order, every page but the last holds 45
\* data rows and the last holds between 1 and 45, so there are ceil(n/45)
\* pages; 100 rows give 45/45/10.
C6_Pagination ==
    (pc = "done" /\ Len(merged.rows) > 0) =>
        LET n == Len(merged.rows)
            P == Len(pages)
        IN  /\ P = (n + lines_per_page - 1) \div lines_per_page
            /\ Len(LinesOfKind(PageLines(pages[1]), "header")) = 1
            /\ \A p \in 2..P :
                 Len(LinesOfKind(PageLines(pages[p]), "header")) = 0
            /\ ReportRowLines = [k \in 1..n |-> row_line(merged.rows[k])]
            /\ \A p \in 1..(P - 1) : DataRows(pages[p]) = lines_per_page
            /\ DataRows(pages[P]) \in 1..lines_per_page
            /\ n = 100 => [p \in 1..P |-> DataRows(pages[p])] = <<45, 45, 10>>

====
